---------------------------- MODULE Spec2Model ----------------------------
(***************************************************************************)
(* Model of streamlit_app.py: the remote-fetch dashboard of BCOGRegApp.    *)
(*                                                                         *)
(* One run of the script is one user interaction.  The script downloads a  *)
(* zipped shapefile into a scoped temporary directory, parses it,          *)
(* reprojects it to EPSG:3005, loads the district CSV, joins the district  *)
(* points to the region polygons, aggregates Rate/Area per region, draws   *)
(* the map and the charts, and finally handles the page-navigation flag    *)
(* kept in st.session_state.                                               *)
(*                                                                         *)
(* Three specifications are defined:                                       *)
(*   Spec      the whole script, stage by stage, run after run;            *)
(*   SpecJoin  the join / aggregate / merge stages over a richer set of    *)
(*             region and district inputs;                                 *)
(*   SpecGeom  extract_coordinates as a pure function of its argument.     *)
(***************************************************************************)
EXTENDS Integers, Sequences, FiniteSets, TLC

VARIABLES
    session_state,     \* st.session_state: a function from keys to values
    pc,                \* position of the script run ("idle" between runs)
    button,            \* value st.button returns in this run
    selected_regions,  \* value st.multiselect returns in this run
    tmpdir,            \* the TemporaryDirectory: does it exist, what it holds
    extracted,         \* names zip_ref.extractall wrote in this run
    archive,           \* what zip_url served in this run
    gdf,               \* the regions GeoDataFrame
    df,                \* the districts DataFrame
    joined,            \* result of gpd.sjoin
    region_stats,      \* result of groupby().agg().reset_index()
    fig,               \* the traces added to the main map figure
    charts,            \* the data of the table, the pie and the two charts
    shown,             \* elements sent to the page in this run, in order
    err,               \* the exception caught by the except clause
    ran,               \* stages that completed in this run, in order
    geometry,          \* argument of a stand-alone extract_coordinates call
    coords,            \* its result
    gpc                \* "call" before, "returned" after

pipeVars == <<session_state, pc, button, selected_regions, tmpdir, extracted,
              archive, gdf, df, joined, region_stats, fig, charts, shown, err,
              ran>>
geomVars == <<geometry, coords, gpc>>
vars == <<session_state, pc, button, selected_regions, tmpdir, extracted,
          archive, gdf, df, joined, region_stats, fig, charts, shown, err,
          ran, geometry, coords, gpc>>

(***************************************************************************)
(* Bounds of the model.                                                    *)
(***************************************************************************)
MaxParts == 2       \* polygons in a MultiPolygon given to extract_coordinates
MaxRingLen == 2     \* coordinates in one exterior ring (SpecGeom)
MaxRegions == 2     \* rows of the regions dataset (SpecJoin)
MaxDistricts == 2   \* rows of the districts CSV (SpecJoin)

(***************************************************************************)
(* Numbers.  A numeric cell of a data frame is NaN or an exact rational    *)
(* num/den in lowest terms, so that a mean is not rounded.                 *)
(***************************************************************************)
RECURSIVE Gcd(_, _)
Gcd(a, b) == IF b = 0 THEN a ELSE Gcd(b, a % b)

NaN == [nan |-> TRUE, num |-> 0, den |-> 1]
Num(n) == [nan |-> FALSE, num |-> n, den |-> 1]
Ratio(n, d) ==
    LET g == Gcd(n, d)
    IN  IF g = 0 THEN Num(0) ELSE [nan |-> FALSE, num |-> n \div g, den |-> d \div g]

\* a < b on non-NaN cells
NumLess(a, b) == a.num * b.den < b.num * a.den

RECURSIVE SumSeq(_)
SumSeq(s) == IF s = <<>> THEN 0 ELSE Head(s) + SumSeq(Tail(s))

\* pandas Series.sum(): NaN is skipped, the sum of nothing is 0
SeriesSum(s) == Num(SumSeq(s))
\* pandas Series.mean(): the mean of nothing is NaN
SeriesMean(s) == IF s = <<>> THEN NaN ELSE Ratio(SumSeq(s), Len(s))

(***************************************************************************)
(* Geometry.  A geometry has a type and parts; a part is an exterior ring, *)
(* a sequence of coordinates <<x, y>> or <<x, y, z>>; the ring of an empty *)
(* polygon is <<>>.  A Polygon has one part, a MultiPolygon one part per   *)
(* polygon, a Point one part of one coordinate.                            *)
(***************************************************************************)
Polygon(ring) == [gtype |-> "Polygon", parts |-> <<ring>>]
MultiPolygon(rings) == [gtype |-> "MultiPolygon", parts |-> rings]
Point(x, y) == [gtype |-> "Point", parts |-> << << <<x, y>> >> >>]

\* The entry None of a coordinate list is <<>>, a number v is <<v>>.
None == <<>>
Some(v) == <<v>>

\* zip(*ring): the x's and the y's of a ring
RingXs(ring) == [i \in 1..Len(ring) |-> Some(ring[i][1])]
RingYs(ring) == [i \in 1..Len(ring) |-> Some(ring[i][2])]

RECURSIVE MultiXs(_)
MultiXs(rings) ==
    IF rings = <<>> THEN <<>>
    ELSE (RingXs(Head(rings)) \o <<None>>) \o MultiXs(Tail(rings))

RECURSIVE MultiYs(_)
MultiYs(rings) ==
    IF rings = <<>> THEN <<>>
    ELSE (RingYs(Head(rings)) \o <<None>>) \o MultiYs(Tail(rings))

\* the number of tuples zip(*ring) yields: none for an empty ring, else as
\* many as the shortest coordinate has components
ZipLen(ring) ==
    IF ring = <<>> THEN 0
    ELSE CHOOSE n \in {Len(ring[i]) : i \in 1..Len(ring)} :
             \A j \in 1..Len(ring) : n <= Len(ring[j])

\* line 21, line 28: x, y = zip(*ring) needs exactly two tuples
Unpacks(ring) == ZipLen(ring) = 2

\* the ValueError of the unpacking
UnpackError(ring) ==
    IF ZipLen(ring) < 2
    THEN "not enough values to unpack (expected 2, got 0)"
    ELSE "too many values to unpack (expected 2)"

\* the first polygon of a MultiPolygon whose ring does not unpack
FirstBad(rings) == CHOOSE k \in 1..Len(rings) :
                       /\ ~Unpacks(rings[k])
                       /\ \A j \in 1..(k - 1) : Unpacks(rings[j])

\* the outcome of a call: the two lists, or the message of the error raised
Returned(x, y) == [error |-> "", x |-> x, y |-> y]
Raised(msg) == [error |-> msg, x |-> <<>>, y |-> <<>>]

\* a variant that lifts the pen between the polygons only, not after the last
RECURSIVE MultiXsBetween(_)
MultiXsBetween(rings) ==
    IF rings = <<>> THEN <<>>
    ELSE IF Len(rings) = 1 THEN RingXs(Head(rings))
    ELSE (RingXs(Head(rings)) \o <<None>>) \o MultiXsBetween(Tail(rings))

extract_coordinates_between(g) ==
    IF g.gtype = "Polygon"
    THEN IF Unpacks(g.parts[1])
         THEN Returned(RingXs(g.parts[1]) \o <<None>>, RingYs(g.parts[1]) \o <<None>>)
         ELSE Raised(UnpackError(g.parts[1]))
    ELSE IF g.gtype = "MultiPolygon"
    THEN IF \A k \in 1..Len(g.parts) : Unpacks(g.parts[k])
         THEN Returned(MultiXsBetween(g.parts), MultiYs(g.parts))
         ELSE Raised(UnpackError(g.parts[FirstBad(g.parts)]))
    ELSE Returned(<<>>, <<>>)

\* a variant that closes every geometry with a separator
extract_coordinates_sep(g) ==
    IF g.gtype = "Polygon"
    THEN IF Unpacks(g.parts[1])
         THEN Returned(RingXs(g.parts[1]) \o <<None>>, RingYs(g.parts[1]) \o <<None>>)
         ELSE Raised(UnpackError(g.parts[1]))
    ELSE IF g.gtype = "MultiPolygon"
    THEN IF \A k \in 1..Len(g.parts) : Unpacks(g.parts[k])
         THEN Returned(MultiXs(g.parts), MultiYs(g.parts))
         ELSE Raised(UnpackError(g.parts[FirstBad(g.parts)]))
    ELSE Returned(<<None>>, <<None>>)

\* lines 18-31
extract_coordinates(g) ==
    IF g.gtype = "Polygon"
    THEN IF Unpacks(g.parts[1])
         THEN Returned(RingXs(g.parts[1]) \o <<None>>, RingYs(g.parts[1]) \o <<None>>)
         ELSE Raised(UnpackError(g.parts[1]))
    ELSE IF g.gtype = "MultiPolygon"
    THEN IF \A k \in 1..Len(g.parts) : Unpacks(g.parts[k])
         THEN Returned(MultiXs(g.parts), MultiYs(g.parts))
         ELSE Raised(UnpackError(g.parts[FirstBad(g.parts)]))
    ELSE Returned(<<>>, <<>>)

(***************************************************************************)
(* Rectangular rings.  The regions the pipeline is run on are axis-aligned *)
(* rectangles on an integer grid, so that "within" can be computed.        *)
(***************************************************************************)
Rect(x0, y0, x1, y1) ==
    << <<x0, y0>>, <<x1, y0>>, <<x1, y1>>, <<x0, y1>>, <<x0, y0>> >>

RingMinX(ring) == CHOOSE v \in {ring[i][1] : i \in 1..Len(ring)} :
                      \A j \in 1..Len(ring) : v <= ring[j][1]
RingMaxX(ring) == CHOOSE v \in {ring[i][1] : i \in 1..Len(ring)} :
                      \A j \in 1..Len(ring) : v >= ring[j][1]
RingMinY(ring) == CHOOSE v \in {ring[i][2] : i \in 1..Len(ring)} :
                      \A j \in 1..Len(ring) : v <= ring[j][2]
RingMaxY(ring) == CHOOSE v \in {ring[i][2] : i \in 1..Len(ring)} :
                      \A j \in 1..Len(ring) : v >= ring[j][2]

\* the interior of a rectangular ring: its boundary is not part of it, and
\* an empty ring has no interior
InsideRing(pt, ring) ==
    /\ ring # <<>>
    /\ RingMinX(ring) < pt[1] /\ pt[1] < RingMaxX(ring)
    /\ RingMinY(ring) < pt[2] /\ pt[2] < RingMaxY(ring)

\* a variant that counts the boundary as inside
WithinClosed(pt, g) ==
    IF g.gtype = "Point" THEN g.parts[1][1] = pt
    ELSE \E k \in 1..Len(g.parts) :
            /\ g.parts[k] # <<>>
            /\ RingMinX(g.parts[k]) <= pt[1] /\ pt[1] <= RingMaxX(g.parts[k])
            /\ RingMinY(g.parts[k]) <= pt[2] /\ pt[2] <= RingMaxY(g.parts[k])

\* shapely's point.within(geometry), the predicate of the spatial join
Within(pt, g) ==
    IF g.gtype = "Point" THEN g.parts[1][1] = pt
    ELSE \E k \in 1..Len(g.parts) : InsideRing(pt, g.parts[k])

(***************************************************************************)
(* Data frames: [loaded, crs, columns, rows]; a row is a function from the *)
(* column names to the cells.  A missing string (None/NaN) is NullName.    *)
(***************************************************************************)
NullName == ""
NoFrame == [loaded |-> FALSE, crs |-> "", columns |-> {}, rows |-> <<>>]
Frame(crs, columns, rows) ==
    [loaded |-> TRUE, crs |-> crs, columns |-> columns, rows |-> rows]

TargetCrs == "EPSG:3005"

\* region names, in sorting order
NameOrder == <<"North", "South">>
Names == {NameOrder[i] : i \in 1..Len(NameOrder)}
NameRank(n) == CHOOSE i \in 1..Len(NameOrder) : NameOrder[i] = n

RECURSIVE SelectSeq2(_, _)
\* the subsequence of s whose elements are in S
SelectSeq2(s, S) ==
    IF s = <<>> THEN <<>>
    ELSE IF Head(s) \in S THEN <<Head(s)>> \o SelectSeq2(Tail(s), S)
    ELSE SelectSeq2(Tail(s), S)

\* sorted(set of names)
SortedNames(S) == SelectSeq2(NameOrder, S)

RECURSIVE Concat(_)
\* the concatenation of a sequence of sequences
Concat(ss) == IF ss = <<>> THEN <<>> ELSE Head(ss) \o Concat(Tail(ss))

\* rows of a frame whose indices are in I, in order
RowsAt(rows, I) ==
    LET RECURSIVE Pick(_)
        Pick(i) == IF i > Len(rows) THEN <<>>
                   ELSE IF i \in I THEN <<rows[i]>> \o Pick(i + 1)
                   ELSE Pick(i + 1)
    IN  Pick(1)

\* a function extended by one key
With(f, k, v) == [c \in DOMAIN f \cup {k} |-> IF c = k THEN v ELSE f[c]]

(***************************************************************************)
(* Line 53-54: the point geometry of each district row.                    *)
(***************************************************************************)
WithPointGeometry(frame) ==
    Frame(TargetCrs, frame.columns \cup {"geometry"},
          [i \in 1..Len(frame.rows) |->
              With(frame.rows[i], "geometry",
                   Point(frame.rows[i]["x"], frame.rows[i]["y"]))])

(***************************************************************************)
(* Line 57: gpd.sjoin(left, right[['REGION_NAM', 'geometry']],             *)
(* how='left', predicate='within').  One output row per (left row, right   *)
(* row) pair that satisfies the predicate, in left order then right order; *)
(* a left row with no match gives one row with index_right and REGION_NAM  *)
(* missing.  index_right counts from 1 here, 0 stands for NaN.             *)
(***************************************************************************)
JoinRow(l, j, name) == With(With(l, "index_right", j), "REGION_NAM", name)

Matches(l, right) ==
    {j \in 1..Len(right.rows) :
        Within(l["geometry"].parts[1][1], right.rows[j]["geometry"])}

\* the rows of the join for the index set M of the matching right rows
EmitRows(l, right, M) ==
    LET RECURSIVE Emit(_)
        Emit(j) == IF j > Len(right.rows) THEN <<>>
                   ELSE IF j \in M
                        THEN <<JoinRow(l, j, right.rows[j]["REGION_NAM"])>> \o Emit(j + 1)
                        ELSE Emit(j + 1)
    IN  IF M = {} THEN <<JoinRow(l, 0, NullName)>> ELSE Emit(1)

SjoinRowsOf(l, right) == EmitRows(l, right, Matches(l, right))

\* a variant of the join whose predicate counts the boundary as inside
sjoin_closed(left, right) ==
    Frame(left.crs, left.columns \cup {"index_right", "REGION_NAM"},
          Concat([i \in 1..Len(left.rows) |->
                    EmitRows(left.rows[i], right,
                             {j \in 1..Len(right.rows) :
                                WithinClosed(left.rows[i]["geometry"].parts[1][1],
                                             right.rows[j]["geometry"])})]))

sjoin(left, right) ==
    Frame(left.crs, left.columns \cup {"index_right", "REGION_NAM"},
          Concat([i \in 1..Len(left.rows) |-> SjoinRowsOf(left.rows[i], right)]))

(***************************************************************************)
(* Line 60: joined.groupby('REGION_NAM').agg({'Rate': 'mean',              *)
(* 'Area': 'sum'}).reset_index().  One row per distinct REGION_NAM that is *)
(* not missing, in sorted order.                                           *)
(***************************************************************************)
GroupKeys(frame) ==
    {frame.rows[i]["REGION_NAM"] : i \in 1..Len(frame.rows)} \ {NullName}

GroupRows(frame, key) ==
    RowsAt(frame.rows, {i \in 1..Len(frame.rows) : frame.rows[i]["REGION_NAM"] = key})

Column(rows, c) == [i \in 1..Len(rows) |-> rows[i][c]]

StatsRow(frame, key) ==
    [REGION_NAM |-> key,
     Rate |-> SeriesMean(Column(GroupRows(frame, key), "Rate")),
     Area |-> SeriesSum(Column(GroupRows(frame, key), "Area"))]

groupby_agg(frame) ==
    LET keys == SortedNames(GroupKeys(frame))
    IN  Frame("", {"REGION_NAM", "Rate", "Area"},
              [k \in 1..Len(keys) |-> StatsRow(frame, keys[k])])


(***************************************************************************)
(* Line 61: gdf.merge(region_stats, on='REGION_NAM', how='left').  Every   *)
(* left row is kept, in order, once per right row with the same key; with  *)
(* no such row the right columns are NaN.  A column other than the key     *)
(* that both frames have is renamed with the suffixes _x and _y.           *)
(***************************************************************************)
SuffixX(c) == CASE c = "Rate" -> "Rate_x" [] c = "Area" -> "Area_x" [] OTHER -> c
SuffixY(c) == CASE c = "Rate" -> "Rate_y" [] c = "Area" -> "Area_y" [] OTHER -> c

Overlap(left, right, on) == (left.columns \cap right.columns) \ {on}
LeftName(left, right, on, c) ==
    IF c \in Overlap(left, right, on) THEN SuffixX(c) ELSE c
RightName(left, right, on, c) ==
    IF c \in Overlap(left, right, on) THEN SuffixY(c) ELSE c

MergedColumns(left, right, on) ==
    {LeftName(left, right, on, c) : c \in left.columns}
        \cup {RightName(left, right, on, c) : c \in right.columns \ {on}}

MergedRow(left, right, on, l, r, matched) ==
    [m \in MergedColumns(left, right, on) |->
        IF \E c \in left.columns : LeftName(left, right, on, c) = m
        THEN l[CHOOSE c \in left.columns : LeftName(left, right, on, c) = m]
        ELSE IF matched
             THEN r[CHOOSE c \in right.columns \ {on} : RightName(left, right, on, c) = m]
             ELSE NaN]

MergeRowsOf(left, right, on, l) ==
    LET M == {j \in 1..Len(right.rows) : right.rows[j][on] = l[on]}
        RECURSIVE Emit(_)
        Emit(j) == IF j > Len(right.rows) THEN <<>>
                   ELSE IF j \in M
                        THEN <<MergedRow(left, right, on, l, right.rows[j], TRUE)>> \o Emit(j + 1)
                        ELSE Emit(j + 1)
    IN  IF M = {} THEN <<MergedRow(left, right, on, l, l, FALSE)>> ELSE Emit(1)

\* a variant that fills the aggregate of an unmatched row with 0
MergeRowsOfZero(left, right, on, l) ==
    LET M == {j \in 1..Len(right.rows) : right.rows[j][on] = l[on]}
        zero == [c \in right.columns |-> Num(0)]
    IN  IF M = {} THEN <<MergedRow(left, right, on, l, zero, TRUE)>>
        ELSE <<MergedRow(left, right, on, l, right.rows[CHOOSE j \in M : TRUE], TRUE)>>

merge_fill_zero(left, right, on) ==
    Frame(left.crs, MergedColumns(left, right, on),
          Concat([i \in 1..Len(left.rows) |-> MergeRowsOfZero(left, right, on, left.rows[i])]))

merge(left, right, on) ==
    Frame(left.crs, MergedColumns(left, right, on),
          Concat([i \in 1..Len(left.rows) |-> MergeRowsOf(left, right, on, left.rows[i])]))

(***************************************************************************)
(* Presentation helpers.                                                   *)
(***************************************************************************)
\* row.get(c, float('nan'))
Get(row, c) == IF c \in DOMAIN row THEN row[c] ELSE NaN

\* Series.sum() of numeric cells: NaN is skipped
CellSum(cells) ==
    LET RECURSIVE Add(_)
        Add(i) == IF i > Len(cells) THEN 0
                  ELSE (IF cells[i].nan THEN 0 ELSE cells[i].num) + Add(i + 1)
    IN  Num(Add(1))

\* Series.max() of plain numbers
SeriesMax(s) == CHOOSE v \in {s[i] : i \in 1..Len(s)} : \A j \in 1..Len(s) : v >= s[j]

\* line 64: sorted(gdf['REGION_NAM'].dropna().unique().tolist())
region_names(frame) ==
    SortedNames({frame.rows[i]["REGION_NAM"] : i \in 1..Len(frame.rows)} \ {NullName})

\* lines 70-82: one trace per region row
RegionTrace(row, selected) ==
    LET xy == extract_coordinates(row["geometry"])
    IN  [x |-> xy.x, y |-> xy.y,
         region_name |-> row["REGION_NAM"],
         fillcolor |-> IF row["REGION_NAM"] \in selected THEN "lightblue" ELSE "lightgrey",
         rate |-> Get(row, "Rate"),
         area |-> Get(row, "Area")]

\* lines 85-100: the district markers
DistrictTrace(frame) ==
    LET area_max == SeriesMax(Column(frame.rows, "Area"))
    IN  [x |-> Column(frame.rows, "x"),
         y |-> Column(frame.rows, "y"),
         size |-> [i \in 1..Len(frame.rows) |->
                     IF area_max = 0 THEN NaN
                     ELSE Ratio(20 * frame.rows[i]["Area"] + 5 * area_max, area_max)],
         color |-> Column(frame.rows, "Rate"),
         text |-> Column(frame.rows, "DISTRICT")]

NoFig == [traces |-> <<>>, districts |-> <<>>]

\* lines 116-123: the table of the selected regions
SelectedRows(frame, selected) ==
    RowsAt(frame.rows, {i \in 1..Len(frame.rows) : frame.rows[i]["REGION_NAM"] \in selected})

DisplayCols(frame) ==
    <<"REGION_NAM">> \o (IF "Rate" \in frame.columns THEN <<"Rate">> ELSE <<>>)
                     \o (IF "Area" \in frame.columns THEN <<"Area">> ELSE <<>>)

Project(rows, cols) ==
    [i \in 1..Len(rows) |-> [c \in {cols[k] : k \in 1..Len(cols)} |-> rows[i][c]]]

\* lines 125-133: the values of the pie chart (cells are whole numbers here)
PieValues(frame, selected) ==
    LET selected_area == CellSum(Column(SelectedRows(frame, selected), "Area"))
        total_area == CellSum(Column(frame.rows, "Area"))
    IN  <<selected_area, Num(total_area.num - selected_area.num)>>

\* frame[['REGION_NAM', c]].dropna()
DropNa(frame, c) ==
    Project(RowsAt(frame.rows,
                   {i \in 1..Len(frame.rows) :
                       /\ frame.rows[i]["REGION_NAM"] # NullName
                       /\ ~frame.rows[i][c].nan}),
            <<"REGION_NAM", c>>)

\* the order of two rows by column "by": names by rank, numbers by value
RowLess(by, a, b) ==
    IF by = "REGION_NAM" THEN NameRank(a[by]) < NameRank(b[by])
    ELSE NumLess(a[by], b[by])

\* DataFrame.sort_values(by=...) on a few rows: an insertion sort, in which
\* rows with equal keys keep their order
sort_values(s, by) ==
    LET RECURSIVE Insert(_, _)
        Insert(v, t) ==
            IF t = <<>> THEN <<v>>
            ELSE IF RowLess(by, v, Head(t)) THEN <<v>> \o t
            ELSE <<Head(t)>> \o Insert(v, Tail(t))
        RECURSIVE Sort(_)
        Sort(n) == IF n = 0 THEN <<>> ELSE Insert(s[n], Sort(n - 1))
    IN  Sort(Len(s))

\* line 139
area_summary(frame) == sort_values(DropNa(frame, "Area"), "REGION_NAM")
\* line 140
rate_summary(frame) == sort_values(DropNa(frame, "Rate"), "Rate")

NoCharts == [table |-> <<>>, pie |-> <<>>, area |-> <<>>, rate |-> <<>>]

(***************************************************************************)
(* What the two URLs can serve.                                            *)
(***************************************************************************)
\* a name as str.endswith sees it: what precedes the last dot, and the rest
FileName(stem, ext) == [stem |-> stem, ext |-> ext]
\* an entry at the top of the archive lies in no directory
NoDir == FileName("", "")

\* an archive entry: the name of its top-level directory inside the archive
\* (NoDir for none), and the stem and the extension of the file
Entry(dir, stem, ext) == [dir |-> dir, stem |-> stem, ext |-> ext]
ShapefileParts(dir, stem) ==
    {Entry(dir, stem, e) : e \in {".shp", ".shx", ".dbf", ".prj"}}

LayoutFlat == ShapefileParts(NoDir, "BC_ResourceRegion")
LayoutNested == ShapefileParts(FileName("BC_ResourceRegion", ""), "BC_ResourceRegion")
\* the files lie in a directory whose own name ends with ".shp"
LayoutShpDir == ShapefileParts(FileName("regions", ".shp"), "BC_ResourceRegion")
LayoutNoShp == {Entry(NoDir, "readme", ".txt")}
Layouts == {LayoutFlat, LayoutNested, LayoutShpDir, LayoutNoShp}

\* the name os.listdir(tmpdir) shows for an extracted entry: the file's own
\* name, or the name of the directory it was extracted into
TopLevelName(e) == IF e.dir = NoDir THEN FileName(e.stem, e.ext) ELSE e.dir

RegionRow(name, geom, columns) ==
    [c \in columns |->
        CASE c = "REGION_NAM" -> name
          [] c = "geometry" -> geom
          [] OTHER -> Num(7)]

RegionRows(pairs, columns) ==
    [i \in 1..Len(pairs) |-> RegionRow(pairs[i][1], pairs[i][2], columns)]

\* a rectangular ring of coordinates with a height
RectZ(x0, y0, x1, y1, z) ==
    << <<x0, y0, z>>, <<x1, y0, z>>, <<x1, y1, z>>, <<x0, y1, z>>, <<x0, y0, z>> >>

SampleRegions ==
    { << <<"North", Polygon(Rect(0, 0, 4, 4))>>,
         <<"South", MultiPolygon(<<Rect(4, 4, 6, 6), Rect(6, 0, 8, 2)>>)>> >>,
      << <<"North", Polygon(Rect(0, 0, 4, 4))>>,
         <<"South", Point(5, 5)>> >>,
      << <<"North", Polygon(Rect(0, 0, 4, 4))>>,
         <<"South", Polygon(<<>>)>> >>,
      << <<"North", Polygon(RectZ(0, 0, 4, 4, 9))>>,
         <<"South", Polygon(Rect(4, 4, 6, 6))>> >> }

RegionColumnSets ==
    {base \cup extra : base \in {{"geometry"}, {"REGION_NAM", "geometry"}},
                       extra \in SUBSET {"Rate", "Area"}}

Unreachable ==
    [reachable |-> FALSE, valid |-> FALSE, entries |-> {}, parseable |-> FALSE,
     crs |-> "", columns |-> {}, rows |-> <<>>]
NotAZip == [Unreachable EXCEPT !.reachable = TRUE]
ZipOf(entries, parseable, crs, columns, rows) ==
    [reachable |-> TRUE, valid |-> TRUE, entries |-> entries, parseable |-> parseable,
     crs |-> crs, columns |-> columns, rows |-> rows]

Archives ==
    {Unreachable, NotAZip}
      \cup {ZipOf(l, FALSE, "", {}, <<>>) : l \in Layouts}
      \cup {ZipOf(l, TRUE, TargetCrs, {"REGION_NAM", "geometry"},
                  RegionRows(p, {"REGION_NAM", "geometry"})) :
                l \in {LayoutNested, LayoutShpDir}, p \in SampleRegions}
      \cup {ZipOf(LayoutFlat, TRUE, crs, cols, RegionRows(p, cols)) :
                crs \in {TargetCrs, "EPSG:4326", ""},
                cols \in RegionColumnSets, p \in SampleRegions}

CsvColumns == {"DISTRICT", "x", "y", "Rate", "Area"}
DistrictNames == <<"D1", "D2", "D3", "D4">>

DistrictRow(i, d, columns) ==
    [c \in columns |->
        CASE c = "DISTRICT" -> DistrictNames[i]
          [] c = "x" -> d[1]
          [] c = "y" -> d[2]
          [] c = "Rate" -> d[3]
          [] OTHER -> d[4]]

DistrictRows(ds, columns) == [i \in 1..Len(ds) |-> DistrictRow(i, ds[i], columns)]

\* <<x, y, Rate, Area>>
SampleDistricts ==
    { << <<1, 1, 1, 2>>, <<3, 3, 4, 1>>, <<5, 5, 2, 2>> >>,
      << <<9, 9, 2, 2>> >> }

CsvUnreachable == [reachable |-> FALSE, columns |-> {}, rows |-> <<>>]
Csvs ==
    {CsvUnreachable}
      \cup {[reachable |-> TRUE, columns |-> cols, rows |-> DistrictRows(d, cols)] :
                cols \in {CsvColumns} \cup {CsvColumns \ {c} : c \in CsvColumns},
                d \in SampleDistricts}

(***************************************************************************)
(* Exceptions and page elements.                                           *)
(***************************************************************************)
NoError == [kind |-> "none", msg |-> "", stage |-> ""]
Raise(kind, msg, stage) == [kind |-> kind, msg |-> msg, stage |-> stage]

Element(widget, body) == [widget |-> widget, body |-> body]

\* tempfile.TemporaryDirectory
NoTmpdir == [exists |-> FALSE, files |-> {}]
\* a variant of the exit that leaves the directory behind
CleanupKeep(t) == t
\* TemporaryDirectory.__exit__: the directory and all it holds are removed
Cleanup(t) == NoTmpdir

\* the stand-in for the projection of one coordinate into the target system
Transform(crs, pt) ==
    IF crs = TargetCrs THEN pt ELSE [pt EXCEPT ![1] = 2 * @, ![2] = 2 * @]

TransformGeometry(crs, g) ==
    [g EXCEPT !.parts = [k \in 1..Len(g.parts) |->
                            [i \in 1..Len(g.parts[k]) |-> Transform(crs, g.parts[k][i])]]]

\* gdf.to_crs(epsg=3005)
to_crs(frame) ==
    Frame(TargetCrs, frame.columns,
          [i \in 1..Len(frame.rows) |->
              [frame.rows[i] EXCEPT !["geometry"] = TransformGeometry(frame.crs, @)]])

(***************************************************************************)
(* The script, stage by stage.  A stage that raises leaves its name in     *)
(* err.stage and hands control to the except clause; leaving the with      *)
(* block, by its end or by an exception, removes the temporary directory.  *)
(***************************************************************************)
FlagKey == "show_new_page"
EmptySession == [k \in {} |-> FALSE]
RegionsZip == FileName("regions", ".zip")

\* a new run of the script: an interaction of the user (lines 11-12)
Rerun ==
    /\ pc = "idle"
    /\ button' \in (IF FlagKey \in DOMAIN session_state THEN BOOLEAN ELSE {FALSE})
    /\ selected_regions' = {}
    /\ tmpdir' = NoTmpdir
    /\ extracted' = {}
    /\ archive' = Unreachable
    /\ gdf' = NoFrame
    /\ df' = NoFrame
    /\ joined' = NoFrame
    /\ region_stats' = NoFrame
    /\ fig' = NoFig
    /\ charts' = NoCharts
    /\ shown' = <<Element("title", "BC Resource Region and OG District Visualization (EPSG:3005)")>>
    /\ err' = NoError
    /\ ran' = <<>>
    /\ pc' = "tmpdir"
    /\ UNCHANGED <<session_state, geomVars>>

\* line 35: with tempfile.TemporaryDirectory() as tmpdir
EnterTmpdir ==
    /\ pc = "tmpdir"
    /\ tmpdir' = [exists |-> TRUE, files |-> {}]
    /\ ran' = Append(ran, "tmpdir")
    /\ pc' = "download"
    /\ UNCHANGED <<session_state, button, selected_regions, extracted, archive, gdf, df,
                   joined, region_stats, fig, charts, shown, err, geomVars>>

\* lines 36-38: open(zip_path, "wb") and write what requests.get returns
Download ==
    /\ pc = "download"
    /\ \E a \in Archives :
          /\ archive' = a
          /\ IF ~a.reachable
             THEN /\ err' = Raise("ConnectionError", "Failed to establish a new connection", "download")
                  /\ tmpdir' = Cleanup([tmpdir EXCEPT !.files = @ \cup {RegionsZip}])
                  /\ pc' = "except"
                  /\ ran' = ran
             ELSE /\ err' = err
                  /\ tmpdir' = [tmpdir EXCEPT !.files = @ \cup {RegionsZip}]
                  /\ pc' = "extract"
                  /\ ran' = Append(ran, "download")
    /\ UNCHANGED <<session_state, button, selected_regions, extracted, gdf, df, joined,
                   region_stats, fig, charts, shown, geomVars>>

\* lines 40-41: zipfile.ZipFile(zip_path).extractall(tmpdir)
Extract ==
    /\ pc = "extract"
    /\ IF ~archive.valid
       THEN /\ err' = Raise("BadZipFile", "File is not a zip file", "extract")
            /\ tmpdir' = Cleanup(tmpdir)
            /\ extracted' = extracted
            /\ pc' = "except"
            /\ ran' = ran
       ELSE /\ err' = err
            /\ tmpdir' = [tmpdir EXCEPT !.files = @ \cup {TopLevelName(e) : e \in archive.entries}]
            /\ extracted' = archive.entries
            /\ pc' = "read_file"
            /\ ran' = Append(ran, "extract")
    /\ UNCHANGED <<session_state, button, selected_regions, archive, gdf, df, joined,
                   region_stats, fig, charts, shown, geomVars>>

\* line 43: the names in os.listdir(tmpdir) that end with ".shp", files and
\* directories alike
shp_files(t) == {f \in t.files : f.ext = ".shp"}

\* lines 43-46 and the end of the with block
ReadShapefile ==
    /\ pc = "read_file"
    /\ tmpdir' = Cleanup(tmpdir)
    /\ IF shp_files(tmpdir) = {}
       THEN /\ err' = Raise("FileNotFoundError", "No .shp file found in the ZIP.", "read_file")
            /\ gdf' = gdf
            /\ pc' = "except"
            /\ ran' = ran
       ELSE IF ~archive.parseable
       THEN /\ err' = Raise("DataSourceError", "not recognized as being in a supported file format", "read_file")
            /\ gdf' = gdf
            /\ pc' = "except"
            /\ ran' = ran
       ELSE /\ err' = err
            /\ gdf' = Frame(archive.crs, archive.columns, archive.rows)
            /\ pc' = "to_crs"
            /\ ran' = Append(ran, "read_file")
    /\ UNCHANGED <<session_state, button, selected_regions, extracted, archive, df, joined,
                   region_stats, fig, charts, shown, geomVars>>

\* lines 48-49: reproject unless the dataset is in the target system already
Reproject ==
    /\ pc = "to_crs"
    /\ IF gdf.crs = TargetCrs
       THEN /\ gdf' = gdf
            /\ err' = err
            /\ pc' = "load_csv"
            /\ ran' = Append(ran, "to_crs")
       ELSE IF gdf.crs = ""
       THEN /\ err' = Raise("ValueError", "Cannot transform naive geometries.  Please set a crs on the object first.", "to_crs")
            /\ gdf' = gdf
            /\ pc' = "except"
            /\ ran' = ran
       ELSE /\ gdf' = to_crs(gdf)
            /\ err' = err
            /\ pc' = "load_csv"
            /\ ran' = Append(ran, "to_crs")
    /\ UNCHANGED <<session_state, button, selected_regions, tmpdir, extracted, archive, df,
                   joined, region_stats, fig, charts, shown, geomVars>>

\* lines 52-54: read the CSV and build the point of every district
LoadCsv ==
    /\ pc = "load_csv"
    /\ \E c \in Csvs :
          IF ~c.reachable
          THEN /\ err' = Raise("URLError", "urlopen error", "load_csv")
               /\ df' = df
               /\ pc' = "except"
               /\ ran' = ran
          ELSE IF "x" \notin c.columns \/ "y" \notin c.columns
          THEN /\ err' = Raise("KeyError", IF "x" \notin c.columns THEN "x" ELSE "y", "load_csv")
               /\ df' = Frame("", c.columns, c.rows)
               /\ pc' = "except"
               /\ ran' = ran
          ELSE /\ err' = err
               /\ df' = WithPointGeometry(Frame("", c.columns, c.rows))
               /\ pc' = "sjoin"
               /\ ran' = Append(ran, "load_csv")
    /\ UNCHANGED <<session_state, button, selected_regions, tmpdir, extracted, archive, gdf,
                   joined, region_stats, fig, charts, shown, geomVars>>

\* a variant of the join stage that goes on without the region names
SpatialJoinLenient ==
    /\ pc = "sjoin"
    /\ err' = err
    /\ joined' = IF "REGION_NAM" \notin gdf.columns
                 THEN Frame(df.crs, df.columns \cup {"index_right", "REGION_NAM"},
                            [i \in 1..Len(df.rows) |-> JoinRow(df.rows[i], 0, NullName)])
                 ELSE sjoin(df, gdf)
    /\ pc' = "aggregate"
    /\ ran' = Append(ran, "sjoin")
    /\ UNCHANGED <<session_state, button, selected_regions, tmpdir, extracted, archive, gdf,
                   df, region_stats, fig, charts, shown, geomVars>>

\* line 57: the spatial join
SpatialJoin ==
    /\ pc = "sjoin"
    /\ IF "REGION_NAM" \notin gdf.columns
       THEN /\ err' = Raise("KeyError", "REGION_NAM", "sjoin")
            /\ joined' = joined
            /\ pc' = "except"
            /\ ran' = ran
       ELSE /\ err' = err
            /\ joined' = sjoin(df, gdf)
            /\ pc' = "aggregate"
            /\ ran' = Append(ran, "sjoin")
    /\ UNCHANGED <<session_state, button, selected_regions, tmpdir, extracted, archive, gdf,
                   df, region_stats, fig, charts, shown, geomVars>>

\* lines 60-61: aggregate per region and merge into the regions
Aggregate ==
    /\ pc = "aggregate"
    /\ IF "Rate" \notin joined.columns \/ "Area" \notin joined.columns
       THEN /\ err' = Raise("KeyError", IF "Rate" \notin joined.columns THEN "Rate" ELSE "Area", "aggregate")
            /\ region_stats' = region_stats
            /\ gdf' = gdf
            /\ pc' = "except"
            /\ ran' = ran
       ELSE /\ err' = err
            /\ region_stats' = groupby_agg(joined)
            /\ gdf' = merge(gdf, groupby_agg(joined), "REGION_NAM")
            /\ pc' = "multiselect"
            /\ ran' = Append(ran, "aggregate")
    /\ UNCHANGED <<session_state, button, selected_regions, tmpdir, extracted, archive, df,
                   joined, fig, charts, shown, geomVars>>

\* lines 64-65: the user's choice among the region names
Multiselect ==
    /\ pc = "multiselect"
    /\ \E sel \in SUBSET {region_names(gdf)[i] : i \in 1..Len(region_names(gdf))} :
          selected_regions' = sel
    /\ shown' = Append(shown, Element("multiselect", "Select Resource Regions to Highlight"))
    /\ ran' = Append(ran, "multiselect")
    /\ pc' = "main_map"
    /\ UNCHANGED <<session_state, button, tmpdir, extracted, archive, gdf, df, joined,
                   region_stats, fig, charts, err, geomVars>>

\* lines 68-112: build the main map and show it
MainMap ==
    /\ pc = "main_map"
    /\ LET traces == [i \in 1..Len(gdf.rows) |-> RegionTrace(gdf.rows[i], selected_regions)]
           raising == {i \in 1..Len(gdf.rows) :
                          extract_coordinates(gdf.rows[i]["geometry"]).error # ""}
           first == CHOOSE i \in raising : \A j \in raising : i <= j
       IN  IF raising # {}
           THEN /\ err' = Raise("ValueError",
                                extract_coordinates(gdf.rows[first]["geometry"]).error,
                                "main_map")
                /\ fig' = [traces |-> SubSeq(traces, 1, first - 1), districts |-> <<>>]
                /\ shown' = shown
                /\ pc' = "except"
                /\ ran' = ran
           ELSE IF "DISTRICT" \notin df.columns
           THEN /\ err' = Raise("KeyError", "DISTRICT", "main_map")
                /\ fig' = [traces |-> traces, districts |-> <<>>]
                /\ shown' = shown
                /\ pc' = "except"
                /\ ran' = ran
           ELSE /\ err' = err
                /\ fig' = [traces |-> traces, districts |-> <<DistrictTrace(df)>>]
                /\ shown' = Append(shown, Element("plotly_chart", "fig"))
                /\ pc' = "selected_info"
                /\ ran' = Append(ran, "main_map")
    /\ UNCHANGED <<session_state, button, selected_regions, tmpdir, extracted, archive, gdf,
                   df, joined, region_stats, charts, geomVars>>

\* lines 115-134: the table and the pie chart of the selected regions
SelectedInfo ==
    /\ pc = "selected_info"
    /\ IF selected_regions = {}
       THEN /\ charts' = charts
            /\ shown' = shown
            /\ err' = err
            /\ pc' = "charts"
            /\ ran' = Append(ran, "selected_info")
       ELSE LET table == Project(SelectedRows(gdf, selected_regions), DisplayCols(gdf))
                head == shown \o <<Element("subheader", "Selected Region Attributes"),
                                   Element("dataframe", "selected_gdf")>>
            IN  IF "Area" \notin gdf.columns
                THEN /\ charts' = [charts EXCEPT !.table = table]
                     /\ shown' = head
                     /\ err' = Raise("KeyError", "Area", "selected_info")
                     /\ pc' = "except"
                     /\ ran' = ran
                ELSE /\ charts' = [charts EXCEPT !.table = table,
                                                 !.pie = PieValues(gdf, selected_regions)]
                     /\ shown' = head \o <<Element("subheader", "Selected Area vs Total Area"),
                                           Element("plotly_chart", "pie_fig")>>
                     /\ err' = err
                     /\ pc' = "charts"
                     /\ ran' = Append(ran, "selected_info")
    /\ UNCHANGED <<session_state, button, selected_regions, tmpdir, extracted, archive, gdf,
                   df, joined, region_stats, fig, geomVars>>

\* lines 137-176: the area chart and the rate chart
Charts ==
    /\ pc = "charts"
    /\ LET head == Append(shown, Element("subheader", "Regional Area and Rate Charts"))
       IN  IF "Area" \notin gdf.columns \/ "Rate" \notin gdf.columns
           THEN /\ charts' = charts
                /\ shown' = head
                /\ err' = Raise("KeyError", IF "Area" \notin gdf.columns THEN "Area" ELSE "Rate", "charts")
                /\ pc' = "except"
                /\ ran' = ran
           ELSE /\ charts' = [charts EXCEPT !.area = area_summary(gdf),
                                            !.rate = rate_summary(gdf)]
                /\ shown' = head \o <<Element("markdown", "Total Area by Region"),
                                      Element("plotly_chart", "area_fig"),
                                      Element("markdown", "Rate by Region"),
                                      Element("plotly_chart", "rate_fig")>>
                /\ err' = err
                /\ pc' = "nav"
                /\ ran' = Append(ran, "charts")
    /\ UNCHANGED <<session_state, button, selected_regions, tmpdir, extracted, archive, gdf,
                   df, joined, region_stats, fig, geomVars>>

\* lines 178-180: the except clause
Except ==
    /\ pc = "except"
    /\ shown' = shown \o <<Element("error", err.msg),
                           Element("write", "Ensure the shapefile and CSV files are accessible and correctly formatted.")>>
    /\ ran' = Append(ran, "except")
    /\ pc' = "nav"
    /\ UNCHANGED <<session_state, button, selected_regions, tmpdir, extracted, archive, gdf,
                   df, joined, region_stats, fig, charts, err, geomVars>>

\* a variant in which a run without a press of the button clears the flag
NextSessionToggle(ss, pressed) == With(ss, FlagKey, pressed)

\* lines 184-188: the flag after the default and the button have been applied
NextSession(ss, pressed) ==
    LET init == IF FlagKey \notin DOMAIN ss THEN With(ss, FlagKey, FALSE) ELSE ss
    IN  IF pressed THEN With(init, FlagKey, TRUE) ELSE init

\* lines 183-192: the page navigation, reached from the try and from the except
Navigation ==
    /\ pc = "nav"
    /\ session_state' = NextSession(session_state, button)
    /\ shown' = shown \o <<Element("markdown", "---"),
                           Element("button", "Go to Site level page")>>
                      \o (IF NextSession(session_state, button)[FlagKey]
                          THEN <<Element("title", "Welcome to the New Page!"),
                                 Element("write", "This is a new page. Add your content here.")>>
                          ELSE <<>>)
    /\ ran' = Append(ran, "nav")
    /\ pc' = "idle"
    /\ UNCHANGED <<button, selected_regions, tmpdir, extracted, archive, gdf, df, joined,
                   region_stats, fig, charts, err, geomVars>>

NoGeometry == [gtype |-> "", parts |-> <<>>]

PipeInit ==
    /\ session_state = EmptySession
    /\ pc = "idle"
    /\ button = FALSE
    /\ selected_regions = {}
    /\ tmpdir = NoTmpdir
    /\ extracted = {}
    /\ archive = Unreachable
    /\ gdf = NoFrame
    /\ df = NoFrame
    /\ joined = NoFrame
    /\ region_stats = NoFrame
    /\ fig = NoFig
    /\ charts = NoCharts
    /\ shown = <<>>
    /\ err = NoError
    /\ ran = <<>>

GeomIdle ==
    /\ geometry = NoGeometry
    /\ coords = Returned(<<>>, <<>>)
    /\ gpc = "unused"

Init == PipeInit /\ GeomIdle

Next ==
    \/ Rerun
    \/ EnterTmpdir
    \/ Download
    \/ Extract
    \/ ReadShapefile
    \/ Reproject
    \/ LoadCsv
    \/ SpatialJoin
    \/ Aggregate
    \/ Multiselect
    \/ MainMap
    \/ SelectedInfo
    \/ Charts
    \/ Except
    \/ Navigation

Spec == Init /\ [][Next]_vars

(***************************************************************************)
(* SpecGeom: extract_coordinates called on every geometry of a bounded     *)
(* set: polygons and multi-polygons with arbitrary rings, the empty ring   *)
(* and rings of 3-D coordinates among them, and geometries of other types. *)
(***************************************************************************)
SeqsUpTo(S, lo, hi) == UNION {[1..k -> S] : k \in lo..hi}

GeomCoords == {<<0, 1>>, <<1, 0>>, <<2, 2, 5>>}
GeomRings == SeqsUpTo(GeomCoords, 0, MaxRingLen)
GeomInputs ==
    {Polygon(r) : r \in GeomRings}
      \cup {MultiPolygon(rs) : rs \in SeqsUpTo(GeomRings, 0, MaxParts)}
      \cup {[gtype |-> "LineString", parts |-> <<r>>] : r \in GeomRings}
      \cup {Point(c[1], c[2]) : c \in GeomCoords}

GeomInit ==
    /\ PipeInit
    /\ geometry \in GeomInputs
    /\ coords = Returned(<<>>, <<>>)
    /\ gpc = "call"

\* lines 18-31: one call of extract_coordinates
CallExtractCoordinates ==
    /\ gpc = "call"
    /\ coords' = extract_coordinates(geometry)
    /\ gpc' = IF extract_coordinates(geometry).error = "" THEN "returned" ELSE "raised"
    /\ UNCHANGED <<geometry, pipeVars>>

GeomNext == CallExtractCoordinates

SpecGeom == GeomInit /\ [][GeomNext]_vars

(***************************************************************************)
(* SpecJoin: lines 57-61 on every regions dataset and every districts      *)
(* table of a bounded set.  The run has loaded both datasets; the regions  *)
(* are in the target system.  Region polygons may overlap and region names *)
(* may repeat; district points lie inside, on the boundary of, or outside  *)
(* the regions.                                                            *)
(***************************************************************************)
JoinGeoms ==
    {Polygon(Rect(0, 0, 4, 4)),
     Polygon(Rect(2, 2, 6, 6)),
     MultiPolygon(<<Rect(0, 0, 2, 2), Rect(3, 3, 5, 5)>>)}
JoinRegions == SeqsUpTo(Names \X JoinGeoms, 1, MaxRegions)

JoinPoints == {<<1, 1>>, <<3, 3>>, <<4, 4>>, <<7, 7>>}
\* <<Rate, Area>>
JoinValues == {<<1, 2>>, <<4, 1>>}
JoinDistricts ==
    SeqsUpTo({<<p[1], p[2], v[1], v[2]>> : p \in JoinPoints, v \in JoinValues},
             1, MaxDistricts)

JoinInit ==
    /\ GeomIdle
    /\ session_state = EmptySession
    /\ button = FALSE
    /\ selected_regions = {}
    /\ tmpdir = NoTmpdir
    /\ extracted = LayoutFlat
    /\ \E p \in JoinRegions :
          /\ archive = ZipOf(LayoutFlat, TRUE, TargetCrs, {"REGION_NAM", "geometry"},
                             RegionRows(p, {"REGION_NAM", "geometry"}))
          /\ gdf = Frame(TargetCrs, {"REGION_NAM", "geometry"},
                         RegionRows(p, {"REGION_NAM", "geometry"}))
    /\ \E d \in JoinDistricts :
          df = WithPointGeometry(Frame("", CsvColumns, DistrictRows(d, CsvColumns)))
    /\ joined = NoFrame
    /\ region_stats = NoFrame
    /\ fig = NoFig
    /\ charts = NoCharts
    /\ shown = <<Element("title", "BC Resource Region and OG District Visualization (EPSG:3005)")>>
    /\ err = NoError
    /\ ran = <<"tmpdir", "download", "extract", "read_file", "to_crs", "load_csv">>
    /\ pc = "sjoin"

JoinNext == SpatialJoin \/ Aggregate

SpecJoin == JoinInit /\ [][JoinNext]_vars

(***************************************************************************)
(* Properties.                                                             *)
(***************************************************************************)
Range(s) == {s[i] : i \in 1..Len(s)}
Last(s) == s[Len(s)]

\* the stages inside the with block of lines 35-46
InWith == {"download", "extract", "read_file"}

\* C1: outside the with block the temporary directory and everything
\* extracted into it are gone, whichever way the block was left (its end,
\* a failed download, a bad zip, no .shp file, a parse failure), so no later
\* stage runs while the directory exists; inside the block it exists.
C1_TmpdirCleanedUp ==
    /\ pc \notin InWith => (~tmpdir.exists /\ tmpdir.files = {})
    /\ pc \in InWith => tmpdir.exists
    /\ pc = "read_file" => {TopLevelName(e) : e \in extracted} \subseteq tmpdir.files

\* a run that extracted files, failed to parse the shapefile, and is in the
\* except clause with the directory removed
C1_Witness ==
    /\ pc = "except"
    /\ err.kind = "DataSourceError"
    /\ extracted # {}
    /\ ~tmpdir.exists
    /\ tmpdir.files = {}

Charted == {e \in Range(shown) : e.widget = "plotly_chart"}
ErrorsShown == {i \in 1..Len(shown) : shown[i].widget = "error"}
RunEnded == pc \in {"nav", "idle"} /\ ran # <<>>

\* C2: when a stage has failed, exactly one error message carrying the
\* error's description is on the page and no map or chart is on it.
C2_FailShowsNoPartialOutput ==
    (RunEnded /\ err.kind # "none") =>
        /\ Cardinality(ErrorsShown) = 1
        /\ \A i \in ErrorsShown : shown[i].body = err.msg
        /\ Charted = {}

Flag == FlagKey \in DOMAIN session_state /\ session_state[FlagKey]
NewPageShown == Element("title", "Welcome to the New Page!") \in Range(shown)

\* C10: the navigation flag is False at the start of the session, turns True
\* only in the navigation step of a run in which the button was pressed,
\* never turns back, is the only thing a new run inherits, and every run,
\* failed or not, ends with the navigation step, which shows the new page
\* exactly when the flag is True.
C10_FlagMonotonic ==
    /\ ~Flag
    /\ [][Flag => Flag']_vars
    /\ [][(~Flag /\ Flag') => (pc = "nav" /\ button)]_vars
    /\ [][(pc = "nav" /\ button) => Flag']_vars
    /\ [][pc = "idle" =>
            /\ session_state' = session_state
            /\ <<selected_regions', tmpdir', extracted', archive', gdf', df', joined',
                 region_stats', fig', charts', err', ran'>>
               = <<{}, NoTmpdir, {}, Unreachable, NoFrame, NoFrame, NoFrame,
                   NoFrame, NoFig, NoCharts, NoError, <<>> >>]_vars
    /\ []((pc = "idle" /\ ran # <<>>) =>
            /\ Last(ran) = "nav"
            /\ FlagKey \in DOMAIN session_state
            /\ NewPageShown <=> Flag)

\* a failed run without a press of the button that still shows the new
\* page, because the flag was set in an earlier run
C10_Witness ==
    /\ pc = "idle"
    /\ Flag
    /\ ~button
    /\ err.kind # "none"
    /\ NewPageShown

ExactlyOneShp(a) ==
    /\ a.reachable /\ a.valid /\ a.parseable
    /\ Cardinality({e \in a.entries : e.ext = ".shp"}) = 1

\* C6: an archive with exactly one .shp file, wherever it lies, yields a
\* dataset and never "No .shp file found"; join and aggregation only run
\* on a dataset in the target reference system.
C6_ShpFoundAnywhere ==
    /\ (ExactlyOneShp(archive) /\ "extract" \in Range(ran) /\ pc # "read_file") =>
          (gdf.loaded /\ err.kind # "FileNotFoundError")
    /\ pc \in {"sjoin", "aggregate"} => gdf.crs = TargetCrs

MissingTabularColumn == df.loaded /\ ("x" \notin df.columns \/ "y" \notin df.columns)
MissingRegionColumn == gdf.loaded /\ "REGION_NAM" \notin gdf.columns

\* C8: when the districts lack x or y, or the regions lack REGION_NAM, the
\* run never gets past the stage that needs the column: no join result, no
\* aggregate, no map and no chart exist; the run ends in an error; and when
\* both datasets were loaded that error is the KeyError of a missing join
\* column, raised by the load or the join stage.
C8_FailFastOnMissingColumn ==
    /\ MissingTabularColumn => pc \in {"except", "nav", "idle"}
    /\ MissingRegionColumn => pc \in {"to_crs", "load_csv", "sjoin", "except", "nav", "idle"}
    /\ (MissingTabularColumn \/ MissingRegionColumn) =>
          /\ ~joined.loaded
          /\ ~region_stats.loaded
          /\ fig = NoFig
          /\ charts = NoCharts
          /\ Charted = {}
          /\ "aggregate" \notin Range(ran)
          /\ RunEnded => err.kind # "none"
          /\ (df.loaded /\ gdf.loaded /\ pc \in {"except", "nav", "idle"}) =>
                /\ err.kind = "KeyError"
                /\ err.msg \in {"x", "y", "REGION_NAM"}
                /\ err.stage \in {"load_csv", "sjoin"}

\* a run on regions without REGION_NAM that failed in the join stage
C8_Witness ==
    /\ pc = "nav"
    /\ MissingRegionColumn
    /\ df.loaded
    /\ err.kind = "KeyError"
    /\ err.msg = "REGION_NAM"
    /\ err.stage = "sjoin"
    /\ Cardinality(ErrorsShown) = 1

IsPolygonal(g) == g.gtype \in {"Polygon", "MultiPolygon"}

\* C9 as stated: no trace of the map comes from a geometry that is neither
\* a polygon nor a multi-polygon.
C9_NoTraceFromNonPolygon ==
    Element("plotly_chart", "fig") \in Range(shown) =>
        \A i \in 1..Len(fig.traces) : IsPolygonal(gdf.rows[i]["geometry"])

\* the rings of a geometry all unpack into x's and y's
RingsUnpack(g) == \A k \in 1..Len(g.parts) : Unpacks(g.parts[k])

\* C9 as the code has it: a geometry of another type raises nothing; it
\* yields empty x and y lists, without a separator, and the trace loop adds
\* a trace with these empty lists for its region.  The only errors of the
\* trace loop come from polygons: the ValueError of a ring that does not
\* unpack, which ends the loop at that region.
C9_NonPolygonGivesEmptyTrace ==
    /\ Len(fig.traces) <= Len(gdf.rows)
    /\ \A i \in 1..Len(fig.traces) :
          /\ fig.traces[i].region_name = gdf.rows[i]["REGION_NAM"]
          /\ ~IsPolygonal(gdf.rows[i]["geometry"]) =>
                (fig.traces[i].x = <<>> /\ fig.traces[i].y = <<>>)
          /\ IsPolygonal(gdf.rows[i]["geometry"]) =>
                /\ RingsUnpack(gdf.rows[i]["geometry"])
                /\ Len(fig.traces[i].x) > Len(gdf.rows[i]["geometry"].parts)
    /\ "main_map" \in Range(ran) => Len(fig.traces) = Len(gdf.rows)
    /\ err.stage = "main_map" =>
          IF err.kind = "KeyError"
          THEN err.msg = "DISTRICT" /\ Len(fig.traces) = Len(gdf.rows)
          ELSE /\ err.kind = "ValueError"
               /\ Len(fig.traces) < Len(gdf.rows)
               /\ IsPolygonal(gdf.rows[Len(fig.traces) + 1]["geometry"])
               /\ ~RingsUnpack(gdf.rows[Len(fig.traces) + 1]["geometry"])

\* the map was shown with a trace for a region whose geometry is a point
C9_Witness ==
    /\ "main_map" \in Range(ran)
    /\ Element("plotly_chart", "fig") \in Range(shown)
    /\ \E i \in 1..Len(fig.traces) :
          /\ gdf.rows[i]["geometry"].gtype = "Point"
          /\ fig.traces[i].x = <<>>

\* the index before the first coordinate of part k in the flat lists
RECURSIVE Offset(_, _)
Offset(parts, k) == IF k = 1 THEN 0 ELSE Offset(parts, k - 1) + Len(parts[k - 1]) + 1

Separators(s) == {i \in 1..Len(s) : s[i] = None}

\* every polygon of the geometry is a ring of at least one coordinate, all
\* of them 2-D
Rings2D(g) ==
    \A k \in 1..Len(g.parts) :
        /\ g.parts[k] # <<>>
        /\ \A i \in 1..Len(g.parts[k]) : Len(g.parts[k][i]) = 2

\* C5: a polygon or a multi-polygon with N polygons, each a ring of 2-D
\* coordinates, is decomposed without an error; the x and y lists have the
\* same length and their separators at the same indices; there are exactly
\* N separators, one right after each exterior ring; the rings come in part
\* order and every ring's coordinates in their own order, unchanged.  The
\* call raises exactly when the x, y unpacking of a ring fails, and then
\* returns no lists.
C5_Decomposition ==
    /\ (gpc \in {"returned", "raised"} /\ IsPolygonal(geometry) /\ Rings2D(geometry)) =>
          gpc = "returned"
    /\ gpc = "raised" =>
          /\ IsPolygonal(geometry)
          /\ \E k \in 1..Len(geometry.parts) :
                \/ geometry.parts[k] = <<>>
                \/ \A i \in 1..Len(geometry.parts[k]) : Len(geometry.parts[k][i]) = 3
          /\ coords.error # ""
          /\ coords.x = <<>> /\ coords.y = <<>>
    /\ (gpc = "returned" /\ IsPolygonal(geometry)) =>
          LET x == coords.x
              y == coords.y
              parts == geometry.parts
              N == Len(parts)
          IN  /\ coords.error = ""
              /\ Len(x) = Len(y)
              /\ Separators(x) = Separators(y)
              /\ Cardinality(Separators(x)) = N
              /\ Len(x) = Offset(parts, N + 1)
              /\ \A k \in 1..N :
                    /\ \A i \in 1..Len(parts[k]) :
                          /\ x[Offset(parts, k) + i] = Some(parts[k][i][1])
                          /\ y[Offset(parts, k) + i] = Some(parts[k][i][2])
                    /\ x[Offset(parts, k) + Len(parts[k]) + 1] = None
                    /\ y[Offset(parts, k) + Len(parts[k]) + 1] = None

\* a multi-polygon of two different rings of 2-D coordinates has been
\* decomposed
C5_Witness ==
    /\ gpc = "returned"
    /\ geometry.gtype = "MultiPolygon"
    /\ Rings2D(geometry)
    /\ Len(geometry.parts) = 2
    /\ geometry.parts[1] # geometry.parts[2]
    /\ Len(geometry.parts[1]) = 2
    /\ geometry.parts[1][1] # geometry.parts[1][2]
    /\ Cardinality(Separators(coords.x)) = 2

(***************************************************************************)
(* Properties of the join, stated on the inputs: archive.rows are the      *)
(* region rows as read, df.rows the districts.                             *)
(***************************************************************************)
RECURSIVE SetSum(_, _)
\* the sum of column c of the district rows whose indices are in S
SetSum(S, c) ==
    IF S = {} THEN 0
    ELSE LET k == CHOOSE k \in S : TRUE
         IN  df.rows[k][c] + SetSum(S \ {k}, c)

DistrictPoint(k) == <<df.rows[k]["x"], df.rows[k]["y"]>>
\* the districts whose point lies within region row i
DistrictsWithin(i) ==
    {k \in 1..Len(df.rows) : Within(DistrictPoint(k), archive.rows[i]["geometry"])}
\* the region rows that carry the name of region row i
SameName(i) ==
    {j \in 1..Len(archive.rows) : archive.rows[j]["REGION_NAM"] = archive.rows[i]["REGION_NAM"]}
UniqueName(i) == SameName(i) = {i}

Joined == joined.loaded
Merged == ran # <<>> /\ Last(ran) = "aggregate"

\* the region names whose group of joined rows holds district name d
GroupsOf(d) ==
    {joined.rows[r]["REGION_NAM"] :
        r \in {q \in 1..Len(joined.rows) : joined.rows[q]["DISTRICT"] = d}} \ {NullName}

\* C3: every district's Area and Rate enter the aggregate of at most one
\* region.
C3_AtMostOneRegionPerDistrict ==
    Joined => \A k \in 1..Len(df.rows) : Cardinality(GroupsOf(df.rows[k]["DISTRICT"])) <= 1

RowsKept ==
    /\ Len(gdf.rows) = Len(archive.rows)
    /\ \A i \in 1..Len(gdf.rows) :
          /\ gdf.rows[i]["REGION_NAM"] = archive.rows[i]["REGION_NAM"]
          /\ gdf.rows[i]["geometry"] = archive.rows[i]["geometry"]

Plotted(summary) == {summary[i]["REGION_NAM"] : i \in 1..Len(summary)}

Unaggregated(i) ==
    /\ gdf.rows[i]["Rate"] = NaN
    /\ gdf.rows[i]["Area"] = NaN
    /\ gdf.rows[i]["Area"] # Num(0)
    /\ gdf.rows[i]["REGION_NAM"] \notin Plotted(area_summary(gdf))
    /\ gdf.rows[i]["REGION_NAM"] \notin Plotted(rate_summary(gdf))

\* C4 as stated: every region row is in the merged output once, and a region
\* row with no district within it has NaN aggregates and is in neither chart.
C4_UnmatchedRowIsNaN ==
    Merged =>
        /\ RowsKept
        /\ \A i \in 1..Len(gdf.rows) : DistrictsWithin(i) = {} => Unaggregated(i)

\* C4 as the code has it: every region row is in the merged output once, in
\* its place; a region row has NaN aggregates, and is in neither chart,
\* exactly when no district lies within any region row of its name; every
\* other region row is in both charts with a value that is not NaN.
C4_UnmatchedNameIsNaN ==
    Merged =>
        /\ RowsKept
        /\ \A i \in 1..Len(gdf.rows) :
              IF \A j \in SameName(i) : DistrictsWithin(j) = {}
              THEN Unaggregated(i)
              ELSE /\ ~gdf.rows[i]["Rate"].nan
                   /\ ~gdf.rows[i]["Area"].nan
                   /\ gdf.rows[i]["REGION_NAM"] \in Plotted(area_summary(gdf))
                   /\ gdf.rows[i]["REGION_NAM"] \in Plotted(rate_summary(gdf))

\* two regions of different names, one with districts and one without
C4_Witness ==
    /\ Merged
    /\ \E i, j \in 1..Len(gdf.rows) :
          /\ UniqueName(i) /\ UniqueName(j)
          /\ DistrictsWithin(i) = {}
          /\ gdf.rows[i]["Area"] = NaN
          /\ DistrictsWithin(j) # {}
          /\ Len(area_summary(gdf)) = 1

OutsideAll(k) == \A i \in 1..Len(archive.rows) : k \notin DistrictsWithin(i)

OutsideExcluded ==
    \A k \in 1..Len(df.rows) :
        OutsideAll(k) =>
            \A r \in 1..Len(joined.rows) :
                joined.rows[r]["DISTRICT"] = df.rows[k]["DISTRICT"] =>
                    (joined.rows[r]["REGION_NAM"] = NullName /\ joined.rows[r]["index_right"] = 0)

ExactAggregate(i) ==
    /\ gdf.rows[i]["Area"] = Num(SetSum(DistrictsWithin(i), "Area"))
    /\ gdf.rows[i]["Rate"] = Ratio(SetSum(DistrictsWithin(i), "Rate"),
                                   Cardinality(DistrictsWithin(i)))

\* C7 as stated: a region row with a district within it has as Area the sum
\* and as Rate the mean over exactly the districts within it; a district
\* outside all regions is joined to no region.
C7_AggregateOfRow ==
    Merged =>
        /\ OutsideExcluded
        /\ \A i \in 1..Len(gdf.rows) : DistrictsWithin(i) # {} => ExactAggregate(i)

\* C7 as the code has it: the same, for the region rows whose REGION_NAM no
\* other region row carries.
C7_AggregateOfUniqueName ==
    Merged =>
        /\ OutsideExcluded
        /\ \A i \in 1..Len(gdf.rows) :
              (UniqueName(i) /\ DistrictsWithin(i) # {}) => ExactAggregate(i)

\* a region of a unique name with two districts of different Rate within it,
\* and a district outside all regions
C7_Witness ==
    /\ Merged
    /\ \E i \in 1..Len(gdf.rows) :
          /\ UniqueName(i)
          /\ Cardinality(DistrictsWithin(i)) = 2
          /\ \E a, b \in DistrictsWithin(i) : df.rows[a]["Rate"] # df.rows[b]["Rate"]
          /\ gdf.rows[i]["Rate"].den = 2
    /\ \E p \in JoinPoints : \A i \in 1..Len(archive.rows) :
          ~Within(p, archive.rows[i]["geometry"])

=============================================================================
